---- MODULE Spec2Model ----
(***************************************************************************)
(* Control-flow registry (CFG), revert classifier and graph pruner         *)
(* (ControlFlowRevertPruner) of the Solidity front end.                    *)
(*                                                                         *)
(* A behaviour is one compilation unit: the AST walk that fills the        *)
(* registry, ControlFlowRevertPruner::run (classification by the worklist  *)
(* loop of findRevertStates, then modifyFunctionFlows), and further passes *)
(* of modifyFunctionFlows over the graphs already pruned.                  *)
(***************************************************************************)
EXTENDS Integers, Sequences, FiniteSets, TLC

VARIABLES
    ast,                    \* the decorated AST: inheritance and declarations
    body,                   \* the graph the builder makes of each callable's body
    addr,                   \* address order of the AST objects (orders the keys)
    pc,                     \* position of the compilation unit
    walkPos,                \* next AST node the walk visits
    m_functionControlFlow,  \* CFG::m_functionControlFlow: key -> graph
    m_callables,            \* ControlFlowRevertPruner::m_callables: key -> state
    pendingFunctions,       \* findRevertStates: pending worklist
    wakeUp,                 \* findRevertStates: blocking key -> stalled keys
    reenqueued,             \* key -> times line 170 has put it back into pending
    prunedKeys,             \* modifyFunctionFlows: keys done in the current pass
    passes,                 \* completed passes of modifyFunctionFlows
    rewritten,              \* call-site nodes rewritten so far, <<key, node>>
    firstPass               \* the graphs as the first pass left them

vars == <<ast, body, addr, pc, walkPos, m_functionControlFlow, m_callables,
          pendingFunctions, wakeUp, reenqueued, prunedKeys, passes, rewritten,
          firstPass>>

(***************************************************************************)
(* Bounds                                                                  *)
(***************************************************************************)
\* passes of modifyFunctionFlows a behaviour may run (run() itself runs one)
MaxPasses == 2

(***************************************************************************)
(* Small helpers                                                           *)
(***************************************************************************)
Range(s) == {s[i] : i \in DOMAIN s}

EmptyMap == [x \in {} |-> x]

\* the element of a one-element set
Only(S) == CHOOSE x \in S : TRUE

\* a traversal about to start at the vertex v
Traversal(v, acc) == [verticesToTraverse |-> <<v>>, visited |-> {}, acc |-> acc]

(***************************************************************************)
(* The decorated AST (input).  Two contracts, B and D; D may inherit from  *)
(* B.  f, u: functions of B (u has no body); m: modifier of B; g: a free   *)
(* function, a function of D, or D's override of f.                        *)
(***************************************************************************)
NoContract == "none"

Contracts == {"B", "D"}

Callables == {"f", "g", "m", "u"}

Nodes == {"entry", "exit", "revert", "a", "b"}

GKinds == {"free", "inD", "override"}

\* CallableDeclaration::annotation().contract
AnnotationContract(c) ==
    IF c = "g"
    THEN (IF ast.gKind = "free" THEN NoContract ELSE "D")
    ELSE "B"

isImplemented(c) == c # "u"

isModifier(c) == c = "m"

isFree(c) == AnnotationContract(c) = NoContract

\* the declared name: an override carries the name of what it overrides
DeclName(c) == IF c = "g" /\ ast.gKind = "override" THEN "f" ELSE c

\* FunctionDefinition::virtualSemantics
virtualSemantics(c) == ast.gKind = "override" /\ c \in {"f", "g"}

\* ContractDefinition::annotation().linearizedBaseContracts, most derived first
linearizedBaseContracts(ct) ==
    IF ct = "D" /\ ast.inherits THEN <<"D", "B">> ELSE <<ct>>

derivesFrom(ct, base) == base \in Range(linearizedBaseContracts(ct))

\* ContractDefinition::definedFunctions
definedFunctions(ct) ==
    {c \in Callables : ~isModifier(c) /\ AnnotationContract(c) = ct}

\* ContractDefinition::functionModifiers
functionModifiers(ct) ==
    {c \in Callables : isModifier(c) /\ AnnotationContract(c) = ct}

\* the AST nodes in source order, as ASTNode::accept walks them
SourceUnit ==
    (IF ast.gKind = "free" THEN <<[type |-> "function", id |-> "g"]>> ELSE <<>>)
    \o <<[type |-> "contract", id |-> "B"],
         [type |-> "function", id |-> "f"],
         [type |-> "function", id |-> "u"],
         [type |-> "contract", id |-> "D"]>>
    \o (IF ast.gKind = "free" THEN <<>> ELSE <<[type |-> "function", id |-> "g"]>>)

(***************************************************************************)
(* Graph nodes.  A CFGNode carries three optional AST references           *)
(* (functionCall, modifierInvocation, placeholderStatement) and the edge   *)
(* lists entries and exits.  The references are fixed by the builder and   *)
(* live in body; the edge lists live in m_functionControlFlow.         *)
(***************************************************************************)
NoRef == [present |-> FALSE, decl |-> "null", lookup |-> "Static"]

Ref(d, l) == [present |-> TRUE, decl |-> d, lookup |-> l]

Tag(fc, mi, ph) ==
    [functionCall |-> fc, modifierInvocation |-> mi, placeholderStatement |-> ph]

Plain == Tag(NoRef, NoRef, FALSE)

PlaceholderTag == Tag(NoRef, NoRef, TRUE)

Shape(ee, ae, be, ta, tb, tx) ==
    [exits |-> [n \in Nodes |->
                    CASE n = "entry" -> ee
                      [] n = "a" -> ae
                      [] n = "b" -> be
                      [] OTHER -> <<>>],
     tag |-> [n \in Nodes |->
                    CASE n = "a" -> ta
                      [] n = "b" -> tb
                      [] n = "exit" -> tx
                      [] OTHER -> Plain]]

Key(ct, c) == [contract |-> ct, callable |-> c]

(***************************************************************************)
(* Bodies (input).  Call expressions: an identifier call has lookup        *)
(* Virtual, a member access (L.f()) has lookup Static; a callee is named   *)
(* by identifier when it is free or declared in a base of the caller's     *)
(* contract.                                                               *)
(***************************************************************************)
CallRef(caller, callee) ==
    Ref(callee,
        IF \/ isFree(callee)
           \/ /\ ~isFree(caller)
              /\ derivesFrom(AnnotationContract(caller), AnnotationContract(callee))
              /\ ~(DeclName(caller) = DeclName(callee) /\ caller # callee)
        THEN "Virtual" ELSE "Static")

CallTag(caller, callee) == Tag(CallRef(caller, callee), NoRef, FALSE)

ModTag(callee) == Tag(NoRef, Ref(callee, "Virtual"), FALSE)

\* entry -> a -> b -> exit
Chain(ta, tb) == Shape(<<"a">>, <<"b">>, <<"exit">>, ta, tb, Plain)

\* entry -> a -> b -> exit and entry -> exit
Bypass(ta, tb) == Shape(<<"a", "exit">>, <<"b">>, <<"exit">>, ta, tb, Plain)

\* entry -> a -> exit and entry -> b -> exit
Join(ta, tb) == Shape(<<"a", "b">>, <<"exit">>, <<"exit">>, ta, tb, Plain)

\* entry -> a -> b -> a (a loop) and b -> exit
Loop(ta, tb) == Shape(<<"a">>, <<"b">>, <<"a", "exit">>, ta, tb, Plain)

\* entry -> revert; a and b are dead code after the revert
Rev == Shape(<<"revert">>, <<"b">>, <<"exit">>, Plain, Plain, Plain)

Ret == Chain(Plain, Plain)

\* bodies of f, a function of contract B
FBodies ==
    {Ret, Rev,
     Chain(CallTag("f", "g"), Plain),
     Chain(CallTag("f", "g"), CallTag("f", "g")),
     Join(CallTag("f", "g"), ModTag("m")),
     Bypass(CallTag("f", "g"), Plain),
     Chain(CallTag("f", "f"), CallTag("f", "g")),
     Chain(CallTag("f", "u"), Plain),
     Chain(ModTag("m"), Plain)}

\* bodies of g
GBodies ==
    {Ret, Rev,
     Chain(CallTag("g", "f"), Plain),
     Bypass(CallTag("g", "f"), Plain),
     Loop(CallTag("g", "g"), Plain)}

\* bodies of the modifier m; the last one is malformed: its placeholder sits on
\* the exit, which lies behind a call of g
MBodies ==
    {Chain(PlaceholderTag, Plain),
     Chain(CallTag("m", "g"), PlaceholderTag),
     Bypass(CallTag("m", "g"), PlaceholderTag),
     Chain(CallTag("m", "f"), PlaceholderTag),
     Shape(<<"a">>, <<"b">>, <<"exit">>, CallTag("m", "g"), Plain, PlaceholderTag)}

(***************************************************************************)
(* Address order (input).  The keys are ordered by the addresses of the    *)
(* contract and of the callable; the null contract is lowest.              *)
(***************************************************************************)
Permutations3(S) ==
    {p \in [S -> 1..Cardinality(S)] : \A x, y \in S : x # y => p[x] # p[y]}

AddrOrders ==
    {[contract |-> cr @@ (NoContract :> 0), callable |-> fr] :
        cr \in Permutations3(Contracts),
        fr \in Permutations3(Callables \ {"u"})}

\* CFG::ContractCallableTuple::operator< when the addresses lie in that order
KeyLessUnder(order, k1, k2) ==
    IF k1.contract = k2.contract
    THEN order.callable[k1.callable] < order.callable[k2.callable]
    ELSE order.contract[k1.contract] < order.contract[k2.contract]

\* CFG::ContractCallableTuple::operator<
KeyLess(k1, k2) == KeyLessUnder(addr, k1, k2)

\* *set.begin() when the addresses lie in that order
FirstUnder(order, S) == CHOOSE k \in S : \A o \in S \ {k} : KeyLessUnder(order, k, o)

\* *set.begin()
First(S) == FirstUnder(addr, S)

(***************************************************************************)
(* Flow Registry: CFG::visit                                               *)
(***************************************************************************)
\* the order in which the builder connects nodes: entries are appended in it
ConnectOrder == <<"entry", "a", "b", "exit", "revert">>

\* ControlFlowBuilder::createFunctionFlow
createFunctionFlow(c) ==
    [exits |-> body[c].exits,
     entries |-> [n \in Nodes |->
                    LET From(p) == n \in Range(body[c].exits[p])
                    IN SelectSeq(ConnectOrder, From)]]

\* (mutant) the flow is stored under the base contract that defines c
FlowKeyOfDefiningContract(_contract, contract, c) == Key(contract, c)

\* the key visit(ContractDefinition) stores a flow under, for the callable c
\* that contract, a base of the visited _contract, defines
FlowKey(_contract, contract, c) == Key(_contract, c)

\* the keys visit(ContractDefinition) assigns
ContractFlowKeys(_contract) ==
    UNION {{FlowKey(_contract, contract, c) :
                c \in {d \in definedFunctions(contract) \cup functionModifiers(contract) :
                          isImplemented(d)}} :
            contract \in Range(linearizedBaseContracts(_contract))}

\* m_functionControlFlow[key] = createFunctionFlow(...) for every key of keys
StoreFlows(flows, keys) ==
    [k \in DOMAIN flows \cup keys |->
        IF k \in keys THEN createFunctionFlow(k.callable) ELSE flows[k]]

Init ==
    /\ ast \in {a \in [inherits : BOOLEAN, gKind : GKinds] :
                    a.gKind = "override" => a.inherits}
    /\ body \in {[f |-> bf, g |-> bg, m |-> bm] :
                    bf \in FBodies, bg \in GBodies, bm \in MBodies}
    /\ addr \in AddrOrders
    /\ pc = "walk"
    /\ walkPos = 1
    /\ m_functionControlFlow = EmptyMap
    /\ m_callables = EmptyMap
    /\ pendingFunctions = {}
    /\ wakeUp = EmptyMap
    /\ reenqueued = EmptyMap
    /\ prunedKeys = {}
    /\ passes = 0
    /\ rewritten = {}
    /\ firstPass = EmptyMap

Walking == pc = "walk" /\ walkPos <= Len(SourceUnit)

\* CFG::visit(ContractDefinition const&)
VisitContractDefinition ==
    /\ Walking
    /\ SourceUnit[walkPos].type = "contract"
    /\ m_functionControlFlow' =
           StoreFlows(m_functionControlFlow, ContractFlowKeys(SourceUnit[walkPos].id))
    /\ walkPos' = walkPos + 1
    /\ UNCHANGED <<ast, body, addr, pc, m_callables, pendingFunctions, wakeUp,
                   reenqueued, prunedKeys, passes, rewritten, firstPass>>

\* CFG::visit(FunctionDefinition const&)
VisitFunctionDefinition ==
    /\ Walking
    /\ SourceUnit[walkPos].type = "function"
    /\ LET _function == SourceUnit[walkPos].id
       IN m_functionControlFlow' =
              IF isImplemented(_function) /\ isFree(_function)
              THEN StoreFlows(m_functionControlFlow, {Key(NoContract, _function)})
              ELSE m_functionControlFlow
    /\ walkPos' = walkPos + 1
    /\ UNCHANGED <<ast, body, addr, pc, m_callables, pendingFunctions, wakeUp,
                   reenqueued, prunedKeys, passes, rewritten, firstPass>>

(***************************************************************************)
(* Call resolution                                                         *)
(***************************************************************************)
\* the declarations of contract ct that carry the name and kind of c
Named(c, ct) ==
    {d \in Callables : /\ AnnotationContract(d) = ct
                       /\ DeclName(d) = DeclName(c)
                       /\ isModifier(d) = isModifier(c)}

\* the first declaration named like c along the linearization lin
RECURSIVE FirstNamed(_, _)
FirstNamed(c, lin) ==
    IF lin = <<>> THEN "null"
    ELSE IF Named(c, Head(lin)) # {} THEN CHOOSE d \in Named(c, Head(lin)) : TRUE
    ELSE FirstNamed(c, Tail(lin))

\* FunctionDefinition::resolveVirtual, ModifierDefinition::resolveVirtual
resolveVirtual(c, mostDerived) ==
    IF ~virtualSemantics(c) THEN c
    ELSE FirstNamed(c, linearizedBaseContracts(mostDerived))

\* ASTNode::resolveFunctionCall
resolveFunctionCall(call, mostDerived) ==
    IF call.decl = "null" \/ isModifier(call.decl) THEN "null"
    ELSE IF call.lookup = "Virtual" /\ virtualSemantics(call.decl)
         THEN resolveVirtual(call.decl, mostDerived)
         ELSE call.decl

resolveModifierInvocation(_invocation, _contract) ==
    IF _invocation.decl # "null" /\ isModifier(_invocation.decl)
    THEN (IF _invocation.lookup = "Virtual"
          THEN resolveVirtual(_invocation.decl, _contract)
          ELSE _invocation.decl)
    ELSE "null"

\* (mutant) the callee is always looked up under its declaring contract
ScopeOfDeclaringContract(_callable, _callingContract) == AnnotationContract(_callable)

\* (mutant) the callee is always looked up under the calling contract
ScopeOfCallingContract(_callable, _callingContract) == _callingContract

findScopeContract(_callable, _callingContract) ==
    IF AnnotationContract(_callable) # NoContract
    THEN (IF /\ _callingContract # NoContract
             /\ derivesFrom(_callingContract, AnnotationContract(_callable))
          THEN _callingContract
          ELSE AnnotationContract(_callable))
    ELSE NoContract

\* the key a call from context ctx into callable is looked up under
CalledKey(callable, ctx) ==
    IF callable = "null" THEN Key(NoContract, "null")
    ELSE Key(findScopeContract(callable, ctx), callable)

\* what a node calls: the callable, whether the node resolved both a modifier
\* and a function, whether the callable has a body, and its key
CalleeOf(ctx, callable, both) ==
    [callable |-> callable,
     both |-> both,
     implemented |-> callable # "null" /\ isImplemented(callable),
     key |-> CalledKey(callable, ctx)]

\* the modifier a node of item's graph invokes, if any
NodeModifier(item, tag) ==
    IF tag.modifierInvocation.present
    THEN resolveModifierInvocation(tag.modifierInvocation, item.contract)
    ELSE "null"

\* the function a node of item's graph calls, if any
NodeFunction(item, tag) ==
    IF tag.functionCall.present
    THEN resolveFunctionCall(tag.functionCall, item.contract)
    ELSE "null"

\* callable = modifier; then, if the node has a call, callable = function
Resolved(ctx, hasCall, modifier, function) ==
    CalleeOf(ctx, IF hasCall THEN function ELSE modifier,
             modifier # "null" /\ function # "null")

TagOf(item, _node) == body[item.callable].tag[_node]

\* the callee the classifier sees at a node: modifier invocations and calls
SearchCallee(item, _node) ==
    Resolved(item.contract, TagOf(item, _node).functionCall.present,
             NodeModifier(item, TagOf(item, _node)),
             NodeFunction(item, TagOf(item, _node)))

\* (mutant) the pruner takes modifier invocations for call sites as well
PruneCalleeWithModifiers(item, _node) ==
    Resolved(item.contract, TagOf(item, _node).functionCall.present,
             NodeModifier(item, TagOf(item, _node)),
             NodeFunction(item, TagOf(item, _node)))

\* the callee the pruner sees at a node: calls only
PruneCallee(item, _node) ==
    Resolved(item.contract, TRUE, "null", NodeFunction(item, TagOf(item, _node)))

(***************************************************************************)
(* BreadthFirstSearch<CFGNode*>::run: the front vertex is taken and, unless *)
(* visited before, handed to the lambda, whose children join the back      *)
(***************************************************************************)
\* the traversal after the lambda returned r for the vertex v with those exits
Advance(t, v, exits, r) ==
    [verticesToTraverse |->
         IF r.expand
         THEN Tail(t.verticesToTraverse)
              \o SelectSeq(exits, LAMBDA n : n \notin t.visited \cup {v})
         ELSE Tail(t.verticesToTraverse),
     visited |-> t.visited \cup {v},
     acc |-> r.acc]

Skip(t) == [t EXCEPT !.verticesToTraverse = Tail(@)]

(***************************************************************************)
(* Revert Classifier: ControlFlowRevertPruner::run and findRevertStates    *)
(***************************************************************************)
Unknown == "Unknown"

AllPathsRevert == "AllPathsRevert"

HasNonRevertingPath == "HasNonRevertingPath"

ModifierRevertPassthrough == "ModifierRevertPassthrough"

\* (mutant) the state test of the worklist loop taken to hold of every key
SearchedWhateverState(states, k) == TRUE

\* the test m_callables[..] == RevertState::Unknown of the worklist loop: a
\* dequeued key is searched, and a woken key re-enqueued, only when it holds
StillUnknown(states, k) == states[k] = Unknown

SearchStart ==
    [foundExit |-> FALSE, foundUnknown |-> FALSE, foundPlaceholder |-> FALSE,
     wake |-> {}, failed |-> FALSE]

\* (mutant) the search goes on past a call whatever the settled callee's state
ReturnsFromAnyState(state) == TRUE

\* whether the search goes on past a call into a callee of that state
ReturnsFrom(state) == state \in {HasNonRevertingPath, ModifierRevertPassthrough}

\* foundExit and foundPlaceholder after _node
Noted(acc, _node, tag) ==
    [acc EXCEPT !.foundExit = @ \/ _node = "exit",
                !.foundPlaceholder = @ \/ tag.placeholderStatement]

\* a solAssert fails, or m_callables.at throws
Throws(acc) == [acc |-> [acc EXCEPT !.failed = TRUE], expand |-> FALSE]

\* the switch over the callee's state
CalleeSwitch(seen, callee, state) ==
    IF state = Unknown
    THEN [acc |-> [seen EXCEPT !.wake = @ \cup {callee.key}, !.foundUnknown = TRUE],
          expand |-> FALSE]
    ELSE IF state = ModifierRevertPassthrough /\ ~isModifier(callee.callable)
    THEN Throws(seen)
    ELSE [acc |-> seen, expand |-> ReturnsFrom(state)]

\* the lambda after the exit test: the flags, and whether the exits are added
NodeResult(states, _node, tag, seen, callee) ==
    IF tag.placeholderStatement /\ _node = "exit" THEN Throws(seen)
    ELSE IF callee.both THEN Throws(seen)
    ELSE IF ~callee.implemented THEN [acc |-> seen, expand |-> TRUE]
    ELSE IF callee.key \notin DOMAIN states THEN Throws(seen)
    ELSE CalleeSwitch(seen, callee, states[callee.key])

\* the lambda of the search
SearchNode(states, item, _node, acc) ==
    NodeResult(states, _node, TagOf(item, _node),
               Noted(acc, _node, TagOf(item, _node)),
               SearchCallee(item, _node))

SearchVertex(states, item, t) ==
    IF Head(t.verticesToTraverse) \in t.visited THEN Skip(t)
    ELSE Advance(t, Head(t.verticesToTraverse),
                 m_functionControlFlow[item].exits[Head(t.verticesToTraverse)],
                 SearchNode(states, item, Head(t.verticesToTraverse), t.acc))

\* the search of item's graph
RECURSIVE Search(_, _, _)
Search(states, item, t) ==
    IF t.verticesToTraverse = <<>> \/ t.acc.failed THEN t.acc
    ELSE Only({Search(states, item, next) : next \in {SearchVertex(states, item, t)}})

\* (mutant) a search that finds no exit settles the key as AllPathsRevert,
\* whether or not it met an Unknown callee
SettleIgnoringUnknown(revertState, foundExit, foundUnknown, foundPlaceholder) ==
    IF foundExit
    THEN (IF foundPlaceholder THEN ModifierRevertPassthrough ELSE HasNonRevertingPath)
    ELSE AllPathsRevert

\* (mutant) a search that met an Unknown callee leaves the key Unknown, exit
\* found or not
SettleOnlyWithoutUnknown(revertState, foundExit, foundUnknown, foundPlaceholder) ==
    IF foundUnknown THEN revertState
    ELSE IF foundExit
    THEN (IF foundPlaceholder THEN ModifierRevertPassthrough ELSE HasNonRevertingPath)
    ELSE AllPathsRevert

\* the state the search's flags give a key
Settle(revertState, foundExit, foundUnknown, foundPlaceholder) ==
    IF foundExit
    THEN (IF foundPlaceholder THEN ModifierRevertPassthrough ELSE HasNonRevertingPath)
    ELSE IF ~foundUnknown THEN AllPathsRevert
    ELSE revertState

\* (mutant) a stalled search is recorded under every key, called or not
StallUnderEveryKey(wake, callees, item) ==
    [k \in DOMAIN m_callables |->
        (IF k \in DOMAIN wake THEN wake[k] ELSE {})
        \cup (IF callees # {} THEN {item} ELSE {})]

\* (mutant) a stalled search is recorded nowhere
StallNowhere(wake, callees, item) == wake

\* wakeUp[callee].insert(item) for every callee of callees
Stall(wake, callees, item) ==
    [k \in DOMAIN wake \cup callees |->
        (IF k \in DOMAIN wake THEN wake[k] ELSE {})
        \cup (IF k \in callees THEN {item} ELSE {})]

\* (mutant) a settled key restarts none of the searches it blocked
WokenNone(wake, item, states) == {}

\* (mutant) a settled key puts back every key of its wake list, settled or not
WokenWhateverState(wake, item, states) == wake[item]

\* the keys the settled item puts back on the worklist
Woken(wake, item, states) == {k \in wake[item] : StillUnknown(states, k)}

\* wakeUp.erase(item)
Erase(wake, item) == [k \in DOMAIN wake \ {item} |-> wake[k]]

\* ControlFlowRevertPruner::run up to the worklist loop
Run ==
    /\ pc = "walk"
    /\ walkPos > Len(SourceUnit)
    /\ m_callables' = [k \in DOMAIN m_functionControlFlow |-> Unknown]
    /\ pendingFunctions' = DOMAIN m_functionControlFlow
    /\ wakeUp' = EmptyMap
    /\ reenqueued' = [k \in DOMAIN m_functionControlFlow |-> 0]
    /\ pc' = IF DOMAIN m_functionControlFlow = {} THEN "prune" ELSE "classify"
    /\ UNCHANGED <<ast, body, addr, walkPos, m_functionControlFlow,
                   prunedKeys, passes, rewritten, firstPass>>

\* one more insertion counted for every key of woken, the keys that the
\* wake-up has added to the pending set
Counted(count, woken) ==
    [k \in DOMAIN count |-> IF k \in woken THEN count[k] + 1 ELSE count[k]]

\* (mutant) the iteration ends without the wake-up block
RestartWithoutWakeUp(item, revertState, stalled) ==
    /\ m_callables' = [m_callables EXCEPT ![item] = revertState]
    /\ pendingFunctions' = pendingFunctions \ {item}
    /\ wakeUp' = stalled
    /\ UNCHANGED reenqueued
    /\ pc' = IF pendingFunctions' = {} THEN "prune" ELSE "classify"

\* (mutant) a key left Unknown stays on the worklist, to be searched again
RestartKeepingUnsettled(item, revertState, stalled) ==
    /\ m_callables' = [m_callables EXCEPT ![item] = revertState]
    /\ IF revertState # Unknown /\ item \in DOMAIN stalled
       THEN /\ pendingFunctions' = (pendingFunctions \ {item})
                                   \cup Woken(stalled, item, m_callables')
            /\ reenqueued' = Counted(reenqueued, pendingFunctions' \ pendingFunctions)
            /\ wakeUp' = Erase(stalled, item)
       ELSE /\ pendingFunctions' = IF revertState = Unknown THEN pendingFunctions
                                   ELSE pendingFunctions \ {item}
            /\ wakeUp' = stalled
            /\ UNCHANGED reenqueued
    /\ pc' = IF pendingFunctions' = {} THEN "prune" ELSE "classify"

\* the end of an iteration that searched item: the state is stored and, if the
\* key has settled, the searches it blocked are restarted
Restart(item, revertState, stalled) ==
    /\ m_callables' = [m_callables EXCEPT ![item] = revertState]
    /\ IF revertState # Unknown /\ item \in DOMAIN stalled
       THEN /\ pendingFunctions' = (pendingFunctions \ {item})
                                   \cup Woken(stalled, item, m_callables')
            /\ reenqueued' = Counted(reenqueued, pendingFunctions' \ pendingFunctions)
            /\ wakeUp' = Erase(stalled, item)
       ELSE /\ pendingFunctions' = pendingFunctions \ {item}
            /\ wakeUp' = stalled
            /\ UNCHANGED reenqueued
    /\ pc' = IF pendingFunctions' = {} THEN "prune" ELSE "classify"

\* one iteration of the worklist loop of findRevertStates
FindRevertStatesStep ==
    /\ pc = "classify"
    /\ pendingFunctions # {}
    /\ \E item \in {First(pendingFunctions)} :
          IF ~StillUnknown(m_callables, item)
          THEN /\ pendingFunctions' = pendingFunctions \ {item}
               /\ pc' = IF pendingFunctions' = {} THEN "prune" ELSE "classify"
               /\ UNCHANGED <<m_callables, wakeUp, reenqueued>>
          ELSE \E found \in {Search(m_callables, item,
                                      Traversal("entry", SearchStart))} :
                  IF found.failed
                  THEN /\ pc' = "aborted"
                       /\ pendingFunctions' = pendingFunctions \ {item}
                       /\ UNCHANGED <<m_callables, wakeUp, reenqueued>>
                  ELSE Restart(item,
                               Settle(m_callables[item], found.foundExit,
                                      found.foundUnknown, found.foundPlaceholder),
                               Stall(wakeUp, found.wake, item))
    /\ UNCHANGED <<ast, body, addr, walkPos, m_functionControlFlow,
                   prunedKeys, passes, rewritten, firstPass>>

(***************************************************************************)
(* Graph Pruner: ControlFlowRevertPruner::modifyFunctionFlows              *)
(***************************************************************************)
\* (mutant) only call sites into AllPathsRevert callees are redirected
RedirectedIfReverting(state) == state = AllPathsRevert

\* the callee states whose call sites are redirected to the revert exit
Redirected(state) == state \in {Unknown, AllPathsRevert}

\* ranges::remove(entries, _node): the kept elements are moved to the front and
\* the vector keeps its length, the tail keeping the values it had
RemovedPrefix(entries, _node) == SelectSeq(entries, LAMBDA n : n # _node)

RangesRemove(entries, _node) ==
    RemovedPrefix(entries, _node)
    \o SubSeq(entries, Len(RemovedPrefix(entries, _node)) + 1, Len(entries))

\* for (CFGNode* node: _node->exits) ranges::remove(node->entries, _node)
RECURSIVE Detach(_, _, _)
Detach(entries, exits, _node) ==
    IF exits = <<>> THEN entries
    ELSE Detach([entries EXCEPT ![Head(exits)] = RangesRemove(@, _node)],
                Tail(exits), _node)

\* the rewrite of a call-site node
Rewrite(graph, _node) ==
    [exits |-> [graph.exits EXCEPT ![_node] = <<"revert">>],
     entries |-> [Detach(graph.entries, graph.exits[_node], _node)
                      EXCEPT !["revert"] = Append(@, _node)]]

PruneStart(item) ==
    [graph |-> m_functionControlFlow[item], rewritten |-> {}, failed |-> FALSE]

\* the lambda of the pruning search at a node with that callee
PruneResult(item, _node, acc, callee) ==
    IF ~callee.implemented THEN [acc |-> acc, expand |-> TRUE]
    ELSE IF callee.key \notin DOMAIN m_callables THEN Throws(acc)
    ELSE IF Redirected(m_callables[callee.key])
    THEN [acc |-> [acc EXCEPT !.graph = Rewrite(@, _node),
                              !.rewritten = @ \cup {<<item, _node>>}],
          expand |-> FALSE]
    ELSE [acc |-> acc, expand |-> TRUE]

PruneNode(item, _node, acc) == PruneResult(item, _node, acc, PruneCallee(item, _node))

PruneVertex(item, t) ==
    IF Head(t.verticesToTraverse) \in t.visited THEN Skip(t)
    ELSE Advance(t, Head(t.verticesToTraverse),
                 t.acc.graph.exits[Head(t.verticesToTraverse)],
                 PruneNode(item, Head(t.verticesToTraverse), t.acc))

\* the pruning search of item's graph
RECURSIVE Prune(_, _)
Prune(item, t) ==
    IF t.verticesToTraverse = <<>> \/ t.acc.failed THEN t.acc
    ELSE Only({Prune(item, next) : next \in {PruneVertex(item, t)}})

\* the end of an iteration: last tells whether item was the last key of the pass
Pruned(item, done, last) ==
    /\ m_functionControlFlow' = [m_functionControlFlow EXCEPT ![item] = done.graph]
    /\ rewritten' = rewritten \cup done.rewritten
    /\ IF done.failed
       THEN /\ pc' = "aborted"
            /\ UNCHANGED <<prunedKeys, passes, firstPass>>
       ELSE /\ prunedKeys' = IF last THEN {} ELSE prunedKeys \cup {item}
            /\ passes' = IF last THEN passes + 1 ELSE passes
            /\ pc' = IF last THEN "done" ELSE "prune"
            /\ firstPass' = IF last /\ passes = 0
                            THEN m_functionControlFlow' ELSE firstPass

\* one iteration of the loop of modifyFunctionFlows over m_callables
ModifyFunctionFlowsStep ==
    /\ pc = "prune"
    /\ prunedKeys # DOMAIN m_callables
    /\ \E item \in {First(DOMAIN m_callables \ prunedKeys)} :
          \E done \in {Prune(item, Traversal("entry", PruneStart(item)))} :
             Pruned(item, done, prunedKeys \cup {item} = DOMAIN m_callables)
    /\ UNCHANGED <<ast, body, addr, walkPos, m_callables, pendingFunctions, wakeUp,
                   reenqueued>>

\* modifyFunctionFlows is run once more over the graphs it has pruned
ModifyFunctionFlowsAgain ==
    /\ pc = "done"
    /\ passes < MaxPasses
    /\ pc' = "prune"
    /\ UNCHANGED <<ast, body, addr, walkPos, m_functionControlFlow, m_callables,
                   pendingFunctions, wakeUp, reenqueued, prunedKeys, passes,
                   rewritten, firstPass>>

Next ==
    \/ VisitContractDefinition
    \/ VisitFunctionDefinition
    \/ Run
    \/ FindRevertStatesStep
    \/ ModifyFunctionFlowsStep
    \/ ModifyFunctionFlowsAgain

Spec == Init /\ [][Next]_vars

\* the program up to the return of findRevertStates
ClassifierNext ==
    \/ VisitContractDefinition
    \/ VisitFunctionDefinition
    \/ Run
    \/ FindRevertStatesStep

\* the compilation units whose contracts lie in memory in their source order
SourceOrderInit == Init /\ addr.contract["B"] < addr.contract["D"]

\* the front end is one thread that runs to completion: a step that can be
\* taken is taken
FairSpec ==
    SourceOrderInit /\ [][ClassifierNext]_vars /\ WF_vars(ClassifierNext)

TypeOK ==
    /\ pc \in {"walk", "classify", "prune", "done", "aborted"}
    /\ passes \in 0..MaxPasses
    /\ pendingFunctions \subseteq DOMAIN m_callables
    /\ DOMAIN wakeUp \subseteq DOMAIN m_callables

(***************************************************************************)
(* Notions the properties below are stated with                            *)
(***************************************************************************)
Keys == DOMAIN m_functionControlFlow

\* the AST walk is over
WalkDone == pc # "walk" \/ walkPos > Len(SourceUnit)

\* findRevertStates has returned
Classified == pc \in {"prune", "done"}

\* findRevertStates has just returned: modifyFunctionFlows has not started
JustClassified == pc = "prune" /\ passes = 0 /\ prunedKeys = {}

\* modifyFunctionFlows has returned
PrunedOnce == pc = "done"

\* the nodes reachable from frontier along exits
RECURSIVE ReachNodes(_, _, _)
ReachNodes(exits, frontier, seen) ==
    IF frontier \subseteq seen THEN seen
    ELSE ReachNodes(exits, UNION {Range(exits[n]) : n \in frontier \ seen},
                    seen \cup frontier)

\* the nodes of k's graph that its entry reaches now
Reachable(k) == ReachNodes(m_functionControlFlow[k].exits, {"entry"}, {})

\* node n of k's graph is a call site into an implemented callee of state st
CallSiteInto(k, n, st) ==
    /\ TagOf(k, n).functionCall.present
    /\ PruneCallee(k, n).implemented
    /\ PruneCallee(k, n).key \in DOMAIN m_callables
    /\ m_callables[PruneCallee(k, n).key] \in st

\* node n of k's graph has the revert exit of that graph as its only successor
ToRevertOnly(k, n) == m_functionControlFlow[k].exits[n] = <<"revert">>

\* the search of k's graph against the states as they are now
SearchNow(k) == Search(m_callables, k, Traversal("entry", SearchStart))

(***************************************************************************)
(* C1  Monotonic settlement: once a key's Revert State is not Unknown, no  *)
(* step of the worklist loop (or any later step) gives it another value.   *)
(***************************************************************************)
C1_SettledStaysSettled ==
    [][\A k \in DOMAIN m_callables :
           m_callables[k] # Unknown
           => k \in DOMAIN m_callables' /\ m_callables'[k] = m_callables[k]]_vars

\* a modifier settled as HasNonRevertingPath keeps that state although a search
\* against the states reached since would find its placeholder
C1_Witness ==
    /\ JustClassified
    /\ \E k \in DOMAIN m_callables :
          /\ m_callables[k] = HasNonRevertingPath
          /\ SearchNow(k).foundExit
          /\ SearchNow(k).foundPlaceholder

(***************************************************************************)
(* C2  Termination: the worklist loop, once started, ends: with an empty   *)
(* pending set when the graphs are well formed, also when calls form self- *)
(* or mutual recursion; with an empty pending set or by the failed         *)
(* assertion when a placeholder sits on an exit node.                      *)
(***************************************************************************)
PlaceholderOnExit == \E c \in DOMAIN body : body[c].tag["exit"].placeholderStatement

C2_LoopTerminates ==
    (pc = "classify")
    ~> (\/ pc = "prune" /\ pendingFunctions = {}
        \/ pc = "aborted" /\ PlaceholderOnExit)

\* the loop has ended and left keys Unknown: the keys of a recursion cycle
C2_Witness ==
    /\ JustClassified
    /\ pendingFunctions = {}
    /\ \E k \in DOMAIN m_callables : m_callables[k] = Unknown /\ k \in SearchNow(k).wake

(***************************************************************************)
(* C3  As claimed: after modifyFunctionFlows, every node with a call-site  *)
(* tag whose implemented callee is AllPathsRevert or Unknown has the       *)
(* revert exit as its only successor.                                      *)
(***************************************************************************)
C3_EveryCallSiteRedirected ==
    PrunedOnce
    => \A k \in Keys : \A n \in Nodes :
          CallSiteInto(k, n, {AllPathsRevert, Unknown}) => ToRevertOnly(k, n)

(***************************************************************************)
(* C3 (amended)  After modifyFunctionFlows, every node that the entry of   *)
(* its graph still reaches and that carries a call-site tag whose          *)
(* implemented callee is AllPathsRevert or Unknown has the revert exit as  *)
(* its only successor.                                                     *)
(***************************************************************************)
C3_ReachableCallSiteRedirected ==
    PrunedOnce
    => \A k \in Keys : \A n \in Reachable(k) :
          CallSiteInto(k, n, {AllPathsRevert, Unknown}) => ToRevertOnly(k, n)

\* a call site into a callee left Unknown has been redirected
C3_Witness ==
    /\ PrunedOnce
    /\ \E k \in Keys : \E n \in Reachable(k) :
          /\ CallSiteInto(k, n, {Unknown})
          /\ ToRevertOnly(k, n)
          /\ body[k.callable].exits[n] # <<"revert">>

(***************************************************************************)
(* C4  After the first pass of modifyFunctionFlows, a rewritten call-site  *)
(* node N occurs in the entries of none of its former successors (the      *)
(* revert exit apart), and those entries are the former ones without the   *)
(* rewritten nodes.                                                        *)
(***************************************************************************)
\* the entries the builder gave node n of k's graph, without k's rewritten nodes
EntriesWithoutRewritten(k, n) ==
    SelectSeq(createFunctionFlow(k.callable).entries[n],
              LAMBDA p : <<k, p>> \notin rewritten)

C4_DetachedFromSuccessors ==
    (PrunedOnce /\ passes = 1)
    => \A r \in rewritten :
          \A succ \in Range(body[r[1].callable].exits[r[2]]) \ {"revert"} :
             /\ r[2] \notin Range(m_functionControlFlow[r[1]].entries[succ])
             /\ m_functionControlFlow[r[1]].entries[succ]
                    = EntriesWithoutRewritten(r[1], succ)

(***************************************************************************)
(* C5  As claimed: two functions whose every path from the entry runs into *)
(* a call to the other, with no other call and no other way to the exit,   *)
(* are both AllPathsRevert when findRevertStates has returned.             *)
(***************************************************************************)
\* the nodes of k's graph reached from its entry without going past a call
\* site or modifier invocation with an implemented callee
RECURSIVE UpToCalls(_, _, _)
UpToCalls(k, frontier, seen) ==
    IF frontier \subseteq seen THEN seen
    ELSE UpToCalls(k,
                   UNION {IF SearchCallee(k, n).implemented THEN {}
                          ELSE Range(body[k.callable].exits[n]) : n \in frontier \ seen},
                   seen \cup frontier)

\* every path from a's entry runs into a call of the function b and of nothing else
CallsOnly(a, b) ==
    /\ ~isModifier(a.callable)
    /\ {"exit", "revert"} \cap UpToCalls(a, {"entry"}, {}) = {}
    /\ \E n \in UpToCalls(a, {"entry"}, {}) : SearchCallee(a, n).implemented
    /\ \A n \in Nodes :
          SearchCallee(a, n).implemented
          => TagOf(a, n).functionCall.present /\ SearchCallee(a, n).key = b

MutualOnly(a, b) == a # b /\ CallsOnly(a, b) /\ CallsOnly(b, a)

C5_MutualRecursionReverts ==
    Classified
    => \A a, b \in Keys :
          MutualOnly(a, b)
          => m_callables[a] = AllPathsRevert /\ m_callables[b] = AllPathsRevert

(***************************************************************************)
(* C5 (amended)  Two such functions are both still Unknown when            *)
(* findRevertStates has returned.                                          *)
(***************************************************************************)
C5_MutualRecursionStaysUnknown ==
    Classified
    => \A a, b \in Keys :
          MutualOnly(a, b) => m_callables[a] = Unknown /\ m_callables[b] = Unknown

C5_Witness ==
    /\ JustClassified
    /\ \E a, b \in Keys :
          MutualOnly(a, b) /\ m_callables[a] = Unknown /\ m_callables[b] = Unknown

(***************************************************************************)
(* C6  A second pass of modifyFunctionFlows leaves every node's exits and  *)
(* entries, as sequences, as the first pass left them.                     *)
(***************************************************************************)
C6_SecondPassChangesNothing ==
    (PrunedOnce /\ passes = 2) => m_functionControlFlow = firstPass

(***************************************************************************)
(* C7  modifyFunctionFlows leaves the exits of a node as the builder made  *)
(* them when the node has no call-site tag (a modifier invocation is none, *)
(* whatever the modifier's state) or its callee is unimplemented,          *)
(* HasNonRevertingPath or ModifierRevertPassthrough.                       *)
(***************************************************************************)
C7_OtherNodesKeepExits ==
    Classified
    => \A k \in Keys : \A n \in Nodes :
          (\/ ~TagOf(k, n).functionCall.present
           \/ ~PruneCallee(k, n).implemented
           \/ CallSiteInto(k, n, {HasNonRevertingPath, ModifierRevertPassthrough}))
          => m_functionControlFlow[k].exits[n] = body[k.callable].exits[n]

\* after the pass: a reachable invocation of a modifier that always reverts
\* still has the exits the builder gave it
C7_Witness ==
    /\ PrunedOnce
    /\ \E k \in Keys : \E n \in Reachable(k) :
          /\ TagOf(k, n).modifierInvocation.present
          /\ m_callables[SearchCallee(k, n).key] = AllPathsRevert
          /\ m_functionControlFlow[k].exits[n] = body[k.callable].exits[n]
          /\ m_functionControlFlow[k].exits[n] # <<"revert">>

(***************************************************************************)
(* C8  The graphs are edge consistent as built; after modifyFunctionFlows  *)
(* B is in A.exits iff A is in B.entries, for all nodes A, B of a graph.   *)
(***************************************************************************)
EdgeConsistent(graph) ==
    \A a, b \in Nodes : b \in Range(graph.exits[a]) <=> a \in Range(graph.entries[b])

C8_EdgeConsistentAfterPruning ==
    (PrunedOnce /\ \A k \in Keys : EdgeConsistent(createFunctionFlow(k.callable)))
    => \A k \in Keys : EdgeConsistent(m_functionControlFlow[k])

(***************************************************************************)
(* C9  When findRevertStates has returned, every key still Unknown lies on *)
(* a cycle of calls among Unknown keys or reaches one through calls into   *)
(* Unknown callees.                                                        *)
(***************************************************************************)
\* the Unknown callees a search of k runs into, the states being as they are
UnknownCallees(k) == SearchNow(k).wake

\* the keys reached from frontier through calls into Unknown callees
RECURSIVE ReachKeys(_, _)
ReachKeys(frontier, seen) ==
    IF frontier \subseteq seen THEN seen
    ELSE ReachKeys(UNION {UnknownCallees(k) : k \in frontier \ seen}, seen \cup frontier)

OnUnknownCycle(k) == m_callables[k] = Unknown /\ k \in ReachKeys(UnknownCallees(k), {})

C9_UnknownOnlyFromRecursion ==
    Classified
    => \A k \in Keys :
          m_callables[k] = Unknown => \E c \in ReachKeys({k}, {}) : OnUnknownCycle(c)

\* a key is Unknown without being on a cycle itself: it calls into one
C9_Witness ==
    /\ JustClassified
    /\ \E k \in Keys :
          /\ m_callables[k] = Unknown
          /\ ~OnUnknownCycle(k)
          /\ \E c \in ReachKeys({k}, {}) : OnUnknownCycle(c)
    /\ \E k \in Keys : m_callables[k] \in {AllPathsRevert, HasNonRevertingPath}

(***************************************************************************)
(* C10  As claimed: after the AST walk an implemented function or modifier *)
(* that contract B defines has an entry under (B, f) and none under (D, f) *)
(* for a contract D that inherits from B.                                  *)
(***************************************************************************)
DefinedIn(c, ct) == isImplemented(c) /\ AnnotationContract(c) = ct

C10_OnlyUnderDefiningContract ==
    WalkDone
    => \A c \in Callables : \A b, d \in Contracts :
          (DefinedIn(c, b) /\ d # b /\ derivesFrom(d, b))
          => Key(b, c) \in Keys /\ Key(d, c) \notin Keys

(***************************************************************************)
(* C10 (amended)  After the AST walk an implemented function or modifier   *)
(* that contract B defines has an entry under (D, f) for exactly the       *)
(* contracts D whose linearized base list holds B: B and its heirs.        *)
(***************************************************************************)
C10_UnderEveryDerivingContract ==
    WalkDone
    => \A c \in Callables : \A b, d \in Contracts :
          DefinedIn(c, b) => (Key(d, c) \in Keys <=> derivesFrom(d, b))

C10_Witness ==
    /\ WalkDone
    /\ ast.inherits
    /\ Key("D", "f") \in Keys
    /\ Key("B", "f") \in Keys
    /\ Key("D", "m") \in Keys

(***************************************************************************)
(* C11  As claimed: over a run of findRevertStates the number of           *)
(* re-enqueue events (insertions into the pending set on wake-up) is at    *)
(* most the number of Callable Keys.                                       *)
(***************************************************************************)
RECURSIVE SumOver(_, _)
SumOver(count, keys) ==
    IF keys = {} THEN 0
    ELSE LET k == CHOOSE x \in keys : TRUE
         IN count[k] + SumOver(count, keys \ {k})

\* the re-enqueue events so far
ReenqueueEvents == SumOver(reenqueued, DOMAIN reenqueued)

\* the keys of the implemented callees that the nodes of k's graph call or invoke
CalleeKeys(k) ==
    {SearchCallee(k, n).key : n \in {x \in Nodes : SearchCallee(k, x).implemented}}

C11_ReenqueuesAtMostKeys ==
    ReenqueueEvents <= Cardinality(DOMAIN m_callables)

(***************************************************************************)
(* C11 (amended)  A key is re-enqueued at most once for each other key     *)
(* that its graph calls or invokes; the re-enqueue events of a run are at  *)
(* most N * (N - 1) for N Callable Keys.                                   *)
(***************************************************************************)
C11_ReenqueuesAtMostCallees ==
    /\ \A k \in DOMAIN reenqueued :
          reenqueued[k] <= Cardinality(CalleeKeys(k) \ {k})
    /\ ReenqueueEvents
          <= Cardinality(DOMAIN m_callables) * (Cardinality(DOMAIN m_callables) - 1)

\* the loop has ended after more re-enqueue events than there are keys, a key
\* having been woken by two callees in turn
C11_Witness ==
    /\ JustClassified
    /\ ReenqueueEvents > Cardinality(DOMAIN m_callables)
    /\ \E k \in DOMAIN reenqueued : reenqueued[k] = 2

(***************************************************************************)
(* C12  A traversal of a key that was Unknown gives it a state that the    *)
(* three flags determine: exit and placeholder found give                  *)
(* ModifierRevertPassthrough; exit found without placeholder gives         *)
(* HasNonRevertingPath, an Unknown callee met or not; neither exit nor     *)
(* Unknown callee gives AllPathsRevert; no exit but an Unknown callee      *)
(* leaves the key Unknown.                                                 *)
(***************************************************************************)
StateOfFlags(flags) ==
    CASE flags.foundExit /\ flags.foundPlaceholder -> ModifierRevertPassthrough
      [] flags.foundExit /\ ~flags.foundPlaceholder -> HasNonRevertingPath
      [] ~flags.foundExit /\ ~flags.foundUnknown -> AllPathsRevert
      [] ~flags.foundExit /\ flags.foundUnknown -> Unknown

\* the key the next iteration of the worklist loop takes
Dequeued == First(pendingFunctions)

\* the next step is an iteration of the worklist loop that runs to its end
IterationStep == pc = "classify" /\ pendingFunctions # {} /\ pc' # "aborted"

C12_StateFromFlags ==
    [][(IterationStep /\ m_callables[Dequeued] = Unknown)
       => m_callables'[Dequeued] = StateOfFlags(SearchNow(Dequeued))]_vars

\* in the loop: a key has settled as HasNonRevertingPath past a callee that is
\* Unknown, and another key has been left Unknown
C12_Witness ==
    /\ pc = "classify"
    /\ \E k \in DOMAIN m_callables :
          /\ m_callables[k] = HasNonRevertingPath
          /\ SearchNow(k).foundUnknown
    /\ \E k \in DOMAIN m_callables \ pendingFunctions : m_callables[k] = Unknown

(***************************************************************************)
(* C13  As claimed: the step in which the dequeued key K settles puts the  *)
(* keys of K's wake list that are still Unknown into the pending set, adds *)
(* none that is settled, and removes K's wake-list entry; a step that      *)
(* leaves K Unknown only dequeues K and leaves K's wake-list entry as it   *)
(* was.                                                                    *)
(***************************************************************************)
\* the keys recorded under k
WakeList(wake, k) == IF k \in DOMAIN wake THEN wake[k] ELSE {}

\* the step settles the dequeued key: its wake list is served and removed
SettlingStepWakes ==
    /\ pendingFunctions' =
           (pendingFunctions \ {Dequeued})
           \cup {x \in WakeList(wakeUp, Dequeued) : m_callables'[x] = Unknown}
    /\ Dequeued \notin DOMAIN wakeUp'

C13_WakeUpOnSettlement ==
    [][(IterationStep /\ m_callables[Dequeued] = Unknown)
       => IF m_callables'[Dequeued] # Unknown
          THEN SettlingStepWakes
          ELSE /\ pendingFunctions' = pendingFunctions \ {Dequeued}
               /\ WakeList(wakeUp', Dequeued) = WakeList(wakeUp, Dequeued)]_vars

(***************************************************************************)
(* C13 (amended)  The same, but a step that leaves K Unknown adds K to its *)
(* own wake list when the search has met a call of K itself; nothing else  *)
(* of K's wake-list entry changes.                                         *)
(***************************************************************************)
C13_WakeUpOnSettlementSelfRecorded ==
    [][(IterationStep /\ m_callables[Dequeued] = Unknown)
       => IF m_callables'[Dequeued] # Unknown
          THEN SettlingStepWakes
          ELSE /\ pendingFunctions' = pendingFunctions \ {Dequeued}
               /\ WakeList(wakeUp', Dequeued)
                      = WakeList(wakeUp, Dequeued)
                        \cup ({Dequeued} \cap SearchNow(Dequeued).wake)]_vars

\* in the loop: a callee has settled, its wake-list entry is gone and a caller
\* of it is back in the pending set; a key that calls itself is still Unknown
\* and recorded in its own wake list
C13_Witness ==
    /\ pc = "classify"
    /\ \E k \in pendingFunctions : \E c \in CalleeKeys(k) :
          /\ reenqueued[k] >= 1
          /\ m_callables[c] # Unknown
          /\ c \notin DOMAIN wakeUp
    /\ \E k \in DOMAIN wakeUp : m_callables[k] = Unknown /\ k \in wakeUp[k]

(***************************************************************************)
(* C14  When findRevertStates has returned: a key whose every path from    *)
(* the entry to the normal exit passes a call-site or modifier-invocation  *)
(* node whose implemented callee is AllPathsRevert, and whose paths meet   *)
(* no callee left Unknown before such a node, is AllPathsRevert itself.    *)
(***************************************************************************)
\* node n of k's graph calls or invokes an implemented callee of a state of st
CalleeStateIn(k, n, st) ==
    /\ SearchCallee(k, n).implemented
    /\ SearchCallee(k, n).key \in DOMAIN m_callables
    /\ m_callables[SearchCallee(k, n).key] \in st

\* the nodes the entry of k's graph, as built, reaches on paths that end at the
\* first node whose callee is AllPathsRevert
RECURSIVE UpToReverting(_, _, _)
UpToReverting(k, frontier, seen) ==
    IF frontier \subseteq seen THEN seen
    ELSE UpToReverting(k,
                       UNION {IF CalleeStateIn(k, n, {AllPathsRevert}) THEN {}
                              ELSE Range(body[k.callable].exits[n]) :
                                 n \in frontier \ seen},
                       seen \cup frontier)

\* every path of k to the normal exit passes a call of an AllPathsRevert callee
ExitBehindReverting(k) == "exit" \notin UpToReverting(k, {"entry"}, {})

\* no such path meets a callee that is Unknown
NoUnknownCalleeMet(k) ==
    \A n \in UpToReverting(k, {"entry"}, {}) : ~CalleeStateIn(k, n, {Unknown})

C14_RevertPropagates ==
    Classified
    => \A k \in Keys :
          (ExitBehindReverting(k) /\ NoUnknownCalleeMet(k))
          => m_callables[k] = AllPathsRevert

\* a chain of two calls: k calls c, c calls a callee that always reverts, and
\* both k and c have ended AllPathsRevert
C14_Witness ==
    /\ JustClassified
    /\ \E k \in Keys : \E n \in UpToReverting(k, {"entry"}, {}) :
          /\ ExitBehindReverting(k) /\ NoUnknownCalleeMet(k)
          /\ CalleeStateIn(k, n, {AllPathsRevert})
          /\ m_callables[k] = AllPathsRevert
          /\ \E n2 \in UpToReverting(SearchCallee(k, n).key, {"entry"}, {}) :
                CalleeStateIn(SearchCallee(k, n).key, n2, {AllPathsRevert})

(***************************************************************************)
(* C15  findScopeContract gives, for a callee and a caller context: the    *)
(* caller's context when the callee has a declaring contract and the       *)
(* context is not null and derives from it; the declaring contract when    *)
(* the callee has one and the context is null or does not derive from it;  *)
(* none when the callee has no declaring contract.  The classifier and the *)
(* pruner look a call site's callee up under the key this rule gives.      *)
(***************************************************************************)
Contexts == Contracts \cup {NoContract}

ScopeRule(callee, context) ==
    CASE AnnotationContract(callee) = NoContract -> NoContract
      [] /\ AnnotationContract(callee) # NoContract
         /\ context # NoContract
         /\ AnnotationContract(callee) \in Range(linearizedBaseContracts(context))
         -> context
      [] /\ AnnotationContract(callee) # NoContract
         /\ \/ context = NoContract
            \/ AnnotationContract(callee) \notin Range(linearizedBaseContracts(context))
         -> AnnotationContract(callee)

RuleKey(k, callee) == Key(ScopeRule(callee, k.contract), callee)

C15_ScopeContractRule ==
    /\ \A callee \in Callables : \A context \in Contexts :
          findScopeContract(callee, context) = ScopeRule(callee, context)
    /\ \A k \in Keys : \A n \in Nodes :
          /\ SearchCallee(k, n).implemented
             => SearchCallee(k, n).key = RuleKey(k, SearchCallee(k, n).callable)
          /\ PruneCallee(k, n).implemented
             => /\ PruneCallee(k, n).key = RuleKey(k, PruneCallee(k, n).callable)
                /\ PruneCallee(k, n).key = SearchCallee(k, n).key

\* classifier and pruner have run over a hierarchy in which a call from the
\* context D into a function of its base B is looked up under D, and a call from
\* B into a function of D, which B does not derive from, under D as well
C15_Witness ==
    /\ PrunedOnce
    /\ \E k \in Keys : \E n \in Nodes :
          /\ k.contract = "D"
          /\ PruneCallee(k, n).implemented
          /\ AnnotationContract(PruneCallee(k, n).callable) = "B"
          /\ PruneCallee(k, n).key.contract = "D"
    /\ \E k \in Keys : \E n \in Nodes :
          /\ k.contract = "B"
          /\ PruneCallee(k, n).implemented
          /\ PruneCallee(k, n).key.contract = "D"

(***************************************************************************)
(* C16  As claimed: when the normal-exit node of a registered graph        *)
(* carries the placeholder tag, classification does not complete and the   *)
(* graph's key is not assigned a Revert State.                             *)
(***************************************************************************)
PlaceholderOnExitOf(k) == body[k.callable].tag["exit"].placeholderStatement

C16_PlaceholderExitAborts ==
    \A k \in DOMAIN m_callables :
       PlaceholderOnExitOf(k) => ~Classified /\ m_callables[k] = Unknown

(***************************************************************************)
(* C16 (what the code does)  A traversal that visits a normal-exit node    *)
(* carrying the placeholder tag aborts classification in that step, the    *)
(* key left unassigned.  A traversal of such a graph that does not reach   *)
(* the exit (it lies behind calls into AllPathsRevert or Unknown callees)  *)
(* does not abort, and assigns AllPathsRevert or leaves the key Unknown.   *)
(***************************************************************************)
\* the nodes the entry of k's graph reaches on paths that end at the first
\* node whose callee is AllPathsRevert or Unknown
RECURSIVE UpToBlocking(_, _, _)
UpToBlocking(k, frontier, seen) ==
    IF frontier \subseteq seen THEN seen
    ELSE UpToBlocking(k,
                      UNION {IF CalleeStateIn(k, n, {AllPathsRevert, Unknown}) THEN {}
                             ELSE Range(m_functionControlFlow[k].exits[n]) :
                                n \in frontier \ seen},
                      seen \cup frontier)

ExitVisited(k) == "exit" \in UpToBlocking(k, {"entry"}, {})

C16_VisitedPlaceholderExitAborts ==
    [][(/\ pc = "classify" /\ pendingFunctions # {}
        /\ m_callables[Dequeued] = Unknown
        /\ PlaceholderOnExitOf(Dequeued))
       => IF ExitVisited(Dequeued)
          THEN pc' = "aborted" /\ m_callables' = m_callables
          ELSE pc' # "aborted"
               /\ m_callables'[Dequeued] \in {AllPathsRevert, Unknown}]_vars

\* classification has aborted on a modifier whose placeholder exit lies behind
\* a call: the callee has settled as returning, the modifier is unassigned
C16_Witness ==
    /\ pc = "aborted"
    /\ \E k \in DOMAIN m_callables : \E n \in Nodes :
          /\ PlaceholderOnExitOf(k)
          /\ m_callables[k] = Unknown
          /\ CalleeStateIn(k, n, {HasNonRevertingPath})
          /\ ExitVisited(k)

(***************************************************************************)
(* C17  After the AST walk, for every call-site or modifier-invocation     *)
(* node of a registered graph whose resolved callee is implemented, the    *)
(* key (findScopeContract(callee, caller's context), callee) is a key of   *)
(* the Registry: the lookups of the classifier and of the pruner find it.  *)
(***************************************************************************)
C17_CalledKeysRegistered ==
    WalkDone
    => \A k \in Keys : \A n \in Nodes :
          /\ SearchCallee(k, n).implemented => SearchCallee(k, n).key \in Keys
          /\ PruneCallee(k, n).implemented => PruneCallee(k, n).key \in Keys

\* classifier and pruner have run over a hierarchy with inheritance: a graph of
\* the context D calls a function that its base B declares, one calls a
\* function declared outside the caller's bases, and a modifier is invoked
C17_Witness ==
    /\ PrunedOnce
    /\ ast.inherits
    /\ DOMAIN m_callables = Keys
    /\ \E k \in Keys : \E n \in Nodes :
          /\ k.contract = "D"
          /\ SearchCallee(k, n).implemented
          /\ AnnotationContract(SearchCallee(k, n).callable) = "B"
          /\ SearchCallee(k, n).key \in Keys
    /\ \E k \in Keys : \E n \in Nodes :
          /\ SearchCallee(k, n).implemented
          /\ SearchCallee(k, n).key.contract # k.contract
    /\ \E k \in Keys : \E n \in Nodes :
          /\ TagOf(k, n).modifierInvocation.present
          /\ SearchCallee(k, n).key \in Keys

(***************************************************************************)
(* C18  No lost wake-up: between the iterations of the worklist loop, and  *)
(* when it has ended, every key whose state is Unknown is in the pending   *)
(* set or recorded in the wake list of a key whose state is Unknown.       *)
(***************************************************************************)
\* k is recorded in the wake list of a key that is Unknown
AwaitsUnknown(k) ==
    \E c \in DOMAIN wakeUp : m_callables[c] = Unknown /\ k \in wakeUp[c]

C18_NoLostWakeUp ==
    (pc = "classify" \/ Classified)
    => \A k \in DOMAIN m_callables :
          m_callables[k] = Unknown => k \in pendingFunctions \/ AwaitsUnknown(k)

\* in the loop: a key that was woken once has stalled again and waits, out of
\* the pending set, for a callee that is still to be searched
C18_Witness ==
    /\ pc = "classify"
    /\ \E k \in DOMAIN m_callables \ pendingFunctions :
          /\ m_callables[k] = Unknown
          /\ reenqueued[k] >= 1
          /\ \E c \in pendingFunctions : c # k /\ k \in WakeList(wakeUp, c)

(***************************************************************************)
(* C19  Fixed point: when findRevertStates has returned, a traversal of a  *)
(* key against the final states fails no assertion and agrees with the     *)
(* key's class: an AllPathsRevert key reaches neither the normal exit nor  *)
(* an Unknown callee; a HasNonRevertingPath or ModifierRevertPassthrough   *)
(* key reaches the normal exit; a key left Unknown does not reach the      *)
(* normal exit and meets a callee that is still Unknown.                   *)
(***************************************************************************)
AgreesWithClass(state, flags) ==
    /\ ~flags.failed
    /\ state = AllPathsRevert => ~flags.foundExit /\ ~flags.foundUnknown
    /\ state \in {HasNonRevertingPath, ModifierRevertPassthrough} => flags.foundExit
    /\ state = Unknown
       => /\ ~flags.foundExit
          /\ flags.foundUnknown
          /\ \E c \in flags.wake : m_callables[c] = Unknown

C19_FixedPoint ==
    Classified => \A k \in Keys : AgreesWithClass(m_callables[k], SearchNow(k))

\* the loop has ended with a key left Unknown, a key that returns and a key
\* that was woken and searched again before it settled
C19_Witness ==
    /\ JustClassified
    /\ \E k \in Keys : m_callables[k] = Unknown
    /\ \E k \in Keys : m_callables[k] = HasNonRevertingPath
    /\ \E k \in Keys : reenqueued[k] >= 1 /\ m_callables[k] # Unknown

(***************************************************************************)
(* C20  Determinism: the final Revert State of every key is the same for   *)
(* every order in which keys are taken from the pending set, modifiers     *)
(* whose placeholder lies behind a call of a callee that is Unknown at the *)
(* first traversal included.                                               *)
(***************************************************************************)
\* the loop of findRevertStates run to its end with the keys ordered by order:
\* the final m_callables, or the empty map when an assertion fails
RECURSIVE FindRevertStatesUnder(_, _, _, _)
FindRevertStatesUnder(order, states, pending, wake) ==
    IF pending = {} THEN states
    ELSE LET item == FirstUnder(order, pending)
             found == Search(states, item, Traversal("entry", SearchStart))
             revertState == Settle(states[item], found.foundExit,
                                   found.foundUnknown, found.foundPlaceholder)
             stalled == Stall(wake, found.wake, item)
             settled == [states EXCEPT ![item] = revertState]
         IN  IF ~StillUnknown(states, item)
             THEN FindRevertStatesUnder(order, states, pending \ {item}, wake)
             ELSE IF found.failed THEN EmptyMap
             ELSE IF revertState # Unknown /\ item \in DOMAIN stalled
             THEN FindRevertStatesUnder(order, settled,
                      (pending \ {item}) \cup Woken(stalled, item, settled),
                      Erase(stalled, item))
             ELSE FindRevertStatesUnder(order, settled, pending \ {item}, stalled)

\* findRevertStates from the state run() leaves, with the keys ordered by order
FinalStatesUnder(order) ==
    FindRevertStatesUnder(order, [k \in Keys |-> Unknown], Keys, EmptyMap)

C20_OrderIndependent ==
    JustClassified => \A order \in AddrOrders : FinalStatesUnder(order) = m_callables

\* the class of a state: reverting, reaching the normal exit, or undecided
ClassOf(state) ==
    IF state \in {HasNonRevertingPath, ModifierRevertPassthrough} THEN "returns"
    ELSE IF state = AllPathsRevert THEN "reverts"
    ELSE "unknown"

\* C20 (what the code does): for every order of the pending set the loop ends
\* without a failed assertion and gives every key a state of the same class;
\* only the choice between HasNonRevertingPath and ModifierRevertPassthrough
\* depends on the order.
C20_ClassOrderIndependent ==
    JustClassified =>
        \A order \in AddrOrders :
            LET final == FinalStatesUnder(order)
            IN  /\ DOMAIN final = Keys
                /\ \A k \in Keys : ClassOf(final[k]) = ClassOf(m_callables[k])

\* the loop has ended for a modifier that calls g ahead of its placeholder,
\* was first searched while g was Unknown, and has settled
C20_Witness ==
    /\ JustClassified
    /\ \E k \in Keys :
          /\ k.callable = "m"
          /\ body["m"] \in {Chain(CallTag("m", "g"), PlaceholderTag),
                            Bypass(CallTag("m", "g"), PlaceholderTag)}
          /\ m_callables[k] \in {HasNonRevertingPath, ModifierRevertPassthrough}
          /\ \E order \in AddrOrders : FinalStatesUnder(order)[k] # m_callables[k]

====
